---- MODULE Spec2Model ----
(***************************************************************************)
(* Model of the fastapi-neo4j embed service.                               *)
(*                                                                         *)
(*   app/db/models.py, app/db/crud.py   the token store (embed_tokens)     *)
(*   app/db/session.py                  scoped storage sessions            *)
(*   app/api/embed.py                   POST /api/embed                    *)
(*   app/main.py                        GET /view/{token},                 *)
(*                                      GET /api/embed/{token}             *)
(*   app/services/neo4j_service.py      run_cypher                         *)
(*   app/api/proxy.py                   POST /api/proxy/query              *)
(*                                                                         *)
(* Every handler is a coroutine: it is modelled as the sequence of its     *)
(* synchronous stretches, cut at the awaits that perform I/O (the storage  *)
(* commit / select, the graph query).  Several requests run interleaved.   *)
(* Time is the wall clock in seconds; strings are sequences of characters. *)
(***************************************************************************)
EXTENDS Integers, Sequences, FiniteSets, TLC

VARIABLES
    store,      \* rows of the embed_tokens table
    now,        \* datetime.now(timezone.utc), in seconds
    req,        \* per request slot: the handler's locals, position and response
    issued,     \* history, per token: how many 200 responses of POST /api/embed
                \* carried it, and the cypherQuery of the request that got it
    seenExpired \* history: tokens some resolution has reported as expired

vars == <<store, now, req, issued, seenExpired>>

----------------------------------------------------------------------------
(* Bounds of the model *)

\* longest query / cypher string submitted
MaxLen == 2
\* seconds the clock is followed past a whole day
MaxSecs == 1
\* days the clock is followed
MaxDays == 1
\* largest expiresInDays a request supplies
MaxTtl == 1

(* Program constants *)

\* expires_days * 24 * 60 * 60
Day == 86400
\* EmbedRequest.expiresInDays default
DefaultDays == 7

Requests == {"r1", "r2"}
Tokens == {"t1", "t2"}
Chars == {"a", " "}
Whitespace == {" "}

Strings == UNION {[1..n -> Chars] : n \in 0..MaxLen}

\* the expiresInDays field of the request body: <<>> when not supplied
TtlInputs == {<<>>} \cup {<<d>> : d \in 0..MaxTtl}

NoToken == "-"
NoTime == -1
NoIso == <<-1, -1>>
NoRec == [embed_token |-> NoToken, cypher_query |-> <<>>,
          expires_at |-> NoTime, created_at |-> NoTime]

----------------------------------------------------------------------------
(* Pure helpers *)

RECURSIVE LStrip(_)
LStrip(s) ==
    IF s # <<>> /\ Head(s) \in Whitespace THEN LStrip(Tail(s)) ELSE s

RECURSIVE RStrip(_)
RStrip(s) ==
    IF s # <<>> /\ s[Len(s)] \in Whitespace
    THEN RStrip(SubSeq(s, 1, Len(s) - 1))
    ELSE s

\* str.strip()
Strip(s) == RStrip(LStrip(s))

\* mutant: the query is compared with "" without being stripped
IsBlankEmptyOnly(s) == s = <<>>

\* `not s or s.strip() == ""`
IsBlank(s) == s = <<>> \/ Strip(s) = <<>>

\* datetime.isoformat(): the date part and the time-of-day part
IsoFormat(t) == <<t \div Day, t % Day>>

\* f"{base_url}/view/{token}"
EmbedUrl(tok) == <<"http://localhost:8000", "/view/", tok>>

----------------------------------------------------------------------------
(* app/api/embed.py: the TTL policy of POST /api/embed *)

\* pydantic: expiresInDays has ge=1; a supplied value below 1 is a 422
TtlRejected(ttl) == ttl # <<>> /\ ttl[1] < 1

\* pydantic: expiresInDays defaults to 7 when the body does not carry it
FieldValue(ttl) == IF ttl = <<>> THEN DefaultDays ELSE ttl[1]

\* expires_days = request.expiresInDays or 1
ExpiresDays(d) == IF d = 0 THEN 1 ELSE d

\* mutant: a factor of 60 is dropped
ExpiresInMinutes(days) == days * 24 * 60

\* expires_in = expires_days * 24 * 60 * 60
ExpiresIn(days) == days * 24 * 60 * 60

\* expires_at = datetime.now(timezone.utc) + timedelta(seconds=expires_in)
ExpiresAt(t, secs) == t + secs

\* mutant: lstrip() in place of strip()
StoredQueryLeft(q) == LStrip(q)

\* cypher_query=request.cypherQuery.strip()
StoredQuery(q) == Strip(q)

----------------------------------------------------------------------------
(* app/db/models.py, app/db/crud.py: the token store *)

\* EmbedToken(embed_token, cypher_query, expires_at); created_at defaults to
\* the clock at insertion
NewRow(tok, q, exp, t) ==
    [embed_token |-> tok, cypher_query |-> q, expires_at |-> exp, created_at |-> t]

\* mutant: the column loses unique=True
InsertOutcomeNoUnique(st, tok, fault) ==
    IF fault THEN "OperationalError" ELSE "ok"

\* session.add + session.commit: embed_token is unique=True, so a second row
\* with a stored token is an IntegrityError; a lost connection an OperationalError
InsertOutcome(st, tok, fault) ==
    IF fault THEN "OperationalError"
    ELSE IF \E r \in st : r.embed_token = tok THEN "IntegrityError"
    ELSE "ok"

\* mutant: a duplicate token overwrites the stored row (merge instead of add)
StoreUpsert(st, row, outcome) ==
    IF outcome = "ok" THEN st \cup {row}
    ELSE IF outcome = "IntegrityError"
    THEN {r \in st : r.embed_token # row.embed_token} \cup {row}
    ELSE st

\* mutant: the row becomes visible before its expires_at is written
StoreTornWrite(st, row, outcome) ==
    IF outcome = "ok" THEN st \cup {[row EXCEPT !.expires_at = NoTime]} ELSE st

\* commit on success, session.rollback() on SQLAlchemyError
StoreAfterInsert(st, row, outcome) ==
    IF outcome = "ok" THEN st \cup {row} ELSE st

\* select(EmbedToken).where(embed_token == token) ... scalar_one_or_none()
find_by_token(st, tok) ==
    IF \E r \in st : r.embed_token = tok
    THEN CHOOSE r \in st : r.embed_token = tok
    ELSE NoRec

----------------------------------------------------------------------------
(* app/main.py: the two resolutions of a token *)

\* mutant: the comparison with the clock is reversed
ViewOutcomeReversed(rec, t) ==
    IF rec = NoRec THEN "embed-not-found.html"
    ELSE IF rec.expires_at > t THEN "embed-expired.html"
    ELSE "embed.html"

\* view_embed: which page is served
ViewOutcome(rec, t) ==
    IF rec = NoRec THEN "embed-not-found.html"
    ELSE IF rec.expires_at < t THEN "embed-expired.html"
    ELSE "embed.html"

\* mutant: a token is expired from the instant of expires_at on
DataOutcomeInclusive(rec, t) ==
    IF rec = NoRec THEN 404
    ELSE IF rec.expires_at <= t THEN 410
    ELSE 200

\* get_embed_data: the HTTP status
DataOutcome(rec, t) ==
    IF rec = NoRec THEN 404
    ELSE IF rec.expires_at < t THEN 410
    ELSE 200

----------------------------------------------------------------------------
(* app/services/neo4j_service.py: run_cypher *)

\* what session.run can raise, with the classes each is an instance of
GraphFailures == {"ServiceUnavailable", "CypherSyntaxError", "TransientError",
                  "SessionExpired", "ValueError"}

Bases(exc) ==
    CASE exc = "ServiceUnavailable" -> {"ServiceUnavailable", "DriverError", "Exception"}
      [] exc = "SessionExpired"     -> {"SessionExpired", "DriverError", "Exception"}
      [] exc = "CypherSyntaxError"  -> {"CypherSyntaxError", "ClientError", "Neo4jError", "Exception"}
      [] exc = "TransientError"     -> {"TransientError", "Neo4jError", "Exception"}
      [] exc = "ValueError"         -> {"ValueError", "Exception"}
      [] OTHER                      -> {}

IsInstance(exc, cls) == cls \in Bases(exc)

\* the except clauses, tried in order; 0 when nothing was raised
RunCypherStatus(exc) ==
    IF IsInstance(exc, "ServiceUnavailable") THEN 503
    ELSE IF IsInstance(exc, "Neo4jError") THEN 400
    ELSE IF IsInstance(exc, "Exception") THEN 500
    ELSE 0

\* the records a query can return, in result order
ResultSets == {<<>>, <<"n2", "n1">>}

----------------------------------------------------------------------------
(* Requests *)

NoResp == [status |-> 0, success |-> FALSE, page |-> "none",
           embedToken |-> NoToken, embedUrl |-> <<>>, cypherQuery |-> <<>>,
           expiresAt |-> NoIso, expiresIn |-> 0, data |-> <<>>, error |-> 0]

\* afterExpired is history: the resolution began after some resolution had
\* reported its token as expired
Idle == [op |-> "none", pc |-> "idle", query |-> <<>>, ttl |-> <<>>,
         token |-> NoToken, reqNow |-> NoTime, expires_in |-> 0,
         expires_at |-> NoTime, rec |-> NoRec, exc |-> "none", rows |-> <<>>,
         sess |-> 0, opened |-> 0, attempts |-> 0, raised |-> 0,
         afterExpired |-> FALSE, resp |-> NoResp]

\* raise HTTPException(status_code=...)
ErrorResp(code) == [NoResp EXCEPT !.status = code]

Free(s) == req[s].pc \in {"idle", "done"}

\* mutant: the storage session is closed only when the body did not raise
SessionLeakOnError(sess, raised) == IF raised # 0 THEN sess ELSE sess - 1

\* the exit of `async with get_session()`: the context manager and the finally
\* clause close the session whether or not the body raised
SessionAfterExit(sess, raised) == sess - 1

\* the exit of `async with driver.session()`, on return and on exception exc
GraphSessionAfterExit(sess, exc) == sess - 1

Init ==
    /\ store = {}
    /\ now = 0
    /\ req = [s \in Requests |-> Idle]
    /\ issued = [t \in Tokens |-> [n |-> 0, query |-> <<>>]]
    /\ seenExpired = {}

(* POST /api/embed *)

\* body validation, lines 74-81 and the entry of `async with session_gen`
CreateBegin(s, q, ttl, tok) ==
    /\ Free(s)
    /\ LET base == [Idle EXCEPT !.op = "create", !.query = q, !.ttl = ttl]
           secs == ExpiresIn(ExpiresDays(FieldValue(ttl)))
       IN  req' = [req EXCEPT ![s] =
             IF TtlRejected(ttl)
             THEN [base EXCEPT !.pc = "done", !.resp = ErrorResp(422)]
             ELSE IF IsBlank(q)
             THEN [base EXCEPT !.pc = "done", !.resp = ErrorResp(400)]
             ELSE [base EXCEPT !.pc = "insert", !.reqNow = now,
                               !.expires_in = secs,
                               !.expires_at = ExpiresAt(now, secs),
                               !.token = tok, !.sess = 1, !.opened = 1]]
    /\ UNCHANGED <<store, now, issued, seenExpired>>

\* crud.create_embed
CreateInsert(s, fault) ==
    /\ req[s].op = "create" /\ req[s].pc = "insert"
    /\ LET r == req[s]
           out == InsertOutcome(store, r.token, fault)
           row == NewRow(r.token, StoredQuery(r.query), r.expires_at, now)
       IN  /\ store' = StoreAfterInsert(store, row, out)
           /\ req' = [req EXCEPT ![s] =
                 [r EXCEPT !.pc = "close", !.attempts = r.attempts + 1,
                           !.exc = IF out = "ok" THEN "none" ELSE out,
                           !.raised = IF out = "ok" THEN 0 ELSE 500]]
    /\ UNCHANGED <<now, issued, seenExpired>>

\* the exit of `async with session_gen`, then lines 86-97 or the HTTPException
CreateFinish(s) ==
    /\ req[s].op = "create" /\ req[s].pc = "close"
    /\ LET r == req[s]
           ok == r.raised = 0
       IN  /\ req' = [req EXCEPT ![s] =
                 [Idle EXCEPT !.op = r.op, !.pc = "done",
                           !.sess = SessionAfterExit(r.sess, r.raised),
                           !.resp = IF ok
                                    THEN [NoResp EXCEPT
                                            !.status = 200, !.success = TRUE,
                                            !.embedUrl = EmbedUrl(r.token),
                                            !.embedToken = r.token,
                                            !.expiresAt = IsoFormat(r.expires_at),
                                            !.expiresIn = r.expires_in]
                                    ELSE ErrorResp(r.raised)]]
           /\ issued' = IF ok
                        THEN [issued EXCEPT ![r.token] =
                                [n |-> issued[r.token].n + 1, query |-> r.query]]
                        ELSE issued
    /\ UNCHANGED <<store, now, seenExpired>>

(* GET /view/{token} and GET /api/embed/{token} *)

\* the entry of `async with session_gen`
ResolveBegin(s, op, tok) ==
    /\ Free(s)
    /\ req' = [req EXCEPT ![s] =
          [Idle EXCEPT !.op = op, !.pc = "lookup", !.token = tok,
                       !.sess = 1, !.opened = 1,
                       !.afterExpired = tok \in seenExpired]]
    /\ UNCHANGED <<store, now, issued, seenExpired>>

\* crud.find_by_token
ResolveLookup(s, fault) ==
    /\ req[s].op \in {"view", "data"} /\ req[s].pc = "lookup"
    /\ req' = [req EXCEPT ![s] =
          IF fault
          THEN [req[s] EXCEPT !.pc = "close", !.exc = "OperationalError",
                              !.raised = 500, !.resp = ErrorResp(500)]
          ELSE [req[s] EXCEPT !.pc = "compare",
                              !.rec = find_by_token(store, req[s].token)]]
    /\ UNCHANGED <<store, now, issued, seenExpired>>

\* the response of view_embed
ViewResp(rec, t) ==
    [NoResp EXCEPT !.status = 200, !.page = ViewOutcome(rec, t)]

\* the response of get_embed_data
DataResp(rec, tok, t) ==
    LET code == DataOutcome(rec, t)
    IN  IF code = 200
        THEN [NoResp EXCEPT !.status = 200, !.success = TRUE,
                            !.cypherQuery = rec.cypher_query,
                            !.embedToken = tok,
                            !.expiresAt = IsoFormat(rec.expires_at)]
        ELSE ErrorResp(code)

\* the handler resumes with the record: `if not embed_record`, then the
\* comparison of expires_at with the clock, inside `async with`; the answer is
\* decided here and the session is still open
ResolveCompare(s) ==
    /\ req[s].op \in {"view", "data"} /\ req[s].pc = "compare"
    /\ LET r == req[s]
       IN  req' = [req EXCEPT ![s] =
             [r EXCEPT !.pc = "close",
                       !.raised = IF r.op = "data" /\ DataOutcome(r.rec, now) # 200
                                  THEN DataOutcome(r.rec, now) ELSE 0,
                       !.resp = IF r.op = "view" THEN ViewResp(r.rec, now)
                                ELSE DataResp(r.rec, r.token, now)]]
    /\ UNCHANGED <<store, now, issued, seenExpired>>

\* the exit of `async with session_gen` (await session.close()), after which
\* the answer decided before the exit leaves the handler
ResolveFinish(s) ==
    /\ req[s].op \in {"view", "data"} /\ req[s].pc = "close"
    /\ LET r == req[s]
       IN  /\ req' = [req EXCEPT ![s] =
                 [Idle EXCEPT !.op = r.op, !.pc = "done", !.token = r.token,
                              !.sess = SessionAfterExit(r.sess, r.raised),
                              !.resp = r.resp]]
           /\ seenExpired' =
                 IF r.resp.status = 410 \/ r.resp.page = "embed-expired.html"
                 THEN seenExpired \cup {r.token} ELSE seenExpired
    /\ UNCHANGED <<store, now, issued>>

(* POST /api/proxy/query *)

\* line 74, then run_cypher up to driver.session()
ProxyBegin(s, cypher) ==
    /\ Free(s)
    /\ LET base == [Idle EXCEPT !.op = "proxy", !.query = cypher]
       IN  req' = [req EXCEPT ![s] =
             IF IsBlank(cypher)
             THEN [base EXCEPT !.pc = "done", !.resp = ErrorResp(400)]
             ELSE [base EXCEPT !.pc = "run", !.sess = 1, !.opened = 1]]
    /\ UNCHANGED <<store, now, issued, seenExpired>>

\* session.run and the collection of the records
ProxyRun(s, exc, rows) ==
    /\ req[s].op = "proxy" /\ req[s].pc = "run"
    /\ req' = [req EXCEPT ![s] =
          [req[s] EXCEPT !.pc = "close", !.exc = exc,
                         !.rows = IF exc = "none" THEN rows ELSE <<>>]]
    /\ UNCHANGED <<store, now, issued, seenExpired>>

\* mutant: the endpoint lets run_cypher's HTTPException through
ProxyRespPropagate(code, rows) ==
    IF code = 0
    THEN [NoResp EXCEPT !.status = 200, !.success = TRUE, !.data = rows]
    ELSE ErrorResp(code)

\* the endpoint's try/except around run_cypher: the rows, or the message of
\* whatever was raised (code is the status of run_cypher's HTTPException)
ProxyResp(code, rows) ==
    IF code = 0
    THEN [NoResp EXCEPT !.status = 200, !.success = TRUE, !.data = rows]
    ELSE [NoResp EXCEPT !.status = 200, !.success = FALSE, !.error = code]

\* the exit of `async with driver.session()`, the except clauses, and the
\* endpoint's try/except around run_cypher
ProxyFinish(s) ==
    /\ req[s].op = "proxy" /\ req[s].pc = "close"
    /\ LET r == req[s]
           code == RunCypherStatus(r.exc)
       IN  req' = [req EXCEPT ![s] =
             [Idle EXCEPT !.op = r.op, !.pc = "done", !.raised = code,
                          !.sess = GraphSessionAfterExit(r.sess, r.exc),
                          !.resp = ProxyResp(code, r.rows)]]
    /\ UNCHANGED <<store, now, issued, seenExpired>>

(* The clock *)

\* d seconds pass, whatever the requests are doing. The clock is followed over
\* the instants up to `secs` seconds past each of the midnights 0..`days`.
Tick(d, secs, days) ==
    /\ (now + d) % Day <= secs
    /\ (now + d) \div Day <= days
    /\ now' = now + d
    /\ UNCHANGED <<store, req, issued, seenExpired>>

\* One step of the service: the requests of slots S carry queries from Qs and
\* expiresInDays from Ttls; uuid4 draws from Toks, and so do the tokens asked
\* for; the graph database fails with the exceptions Excs; the clock advances
\* by the amounts in Steps
Step(S, Toks, Qs, Ttls, Excs, Steps, secs, days) ==
    \/ \E s \in S, q \in Qs, ttl \in Ttls, tok \in Toks :
          CreateBegin(s, q, ttl, tok)
    \/ \E s \in S, fault \in BOOLEAN : CreateInsert(s, fault)
    \/ \E s \in S : CreateFinish(s)
    \/ \E s \in S, op \in {"view", "data"}, tok \in Toks :
          ResolveBegin(s, op, tok)
    \/ \E s \in S, fault \in BOOLEAN : ResolveLookup(s, fault)
    \/ \E s \in S : ResolveCompare(s)
    \/ \E s \in S : ResolveFinish(s)
    \/ \E s \in S, cypher \in Qs : ProxyBegin(s, cypher)
    \/ \E s \in S, exc \in Excs \cup {"none"}, rows \in ResultSets :
          ProxyRun(s, exc, rows)
    \/ \E s \in S : ProxyFinish(s)
    \/ \E d \in Steps : Tick(d, secs, days)

\* Concurrent requests: two requests in flight, a few bodies
FewStrings == {<<" ">>, <<"a">>}
FewTtls == {<<1>>}
FewFailures == {"ServiceUnavailable", "CypherSyntaxError", "ValueError"}
Next == Step(Requests, Tokens, FewStrings, FewTtls, FewFailures, {Day}, 0, 2)
Spec == Init /\ [][Next]_vars

\* Concurrent requests for one token, the clock two days past its expiry
NextExpiry ==
    Step(Requests, {"t1"}, {<<"a">>}, FewTtls, {"ServiceUnavailable"}, {1, Day}, 1, 3)
SpecExpiry == Init /\ [][NextExpiry]_vars

\* One request at a time, every body text up to MaxLen, the clock in days
NextText == Step({"r1"}, Tokens, Strings, FewTtls, FewFailures, {Day}, 0, 2)
SpecText == Init /\ [][NextText]_vars

\* One request at a time, every expiresInDays, the clock up to MaxDays
NextTime ==
    Step({"r1"}, Tokens, {<<"a">>}, TtlInputs, GraphFailures, {1, Day}, MaxSecs, MaxDays)
SpecTime == Init /\ [][NextTime]_vars

----------------------------------------------------------------------------
(* Properties *)

\* request s takes the step that ends in its response
Responds(s) == req[s].pc = "close" /\ req'[s].pc = "done"

\* resolution s tests the record it looked up against the clock
Compares(s) == req[s].pc = "compare" /\ req'[s].pc = "close"

\* request s is accepted from the network by handler op
Arrives(s, op) == Free(s) /\ req'[s] # req[s] /\ req'[s].op = op

\* request s performs its storage insert
Inserts(s) == req[s].op = "create" /\ req[s].pc = "insert" /\ req'[s].pc = "close"

Stored(tok) == {r \in store : r.embed_token = tok}

AllWhitespace(q) == \A i \in 1..Len(q) : q[i] \in Whitespace

\* t is q without its leading and trailing whitespace
IsTrimOf(t, q) ==
    /\ t # <<>> => t[1] \notin Whitespace /\ t[Len(t)] \notin Whitespace
    /\ \E i \in 0..Len(q) :
          /\ i + Len(t) <= Len(q)
          /\ SubSeq(q, i + 1, i + Len(t)) = t
          /\ \A k \in 1..Len(q) : (k <= i \/ k > i + Len(t)) => q[k] \in Whitespace

\* the three-way status of a token in the current store at the current time
TokenStatus(tok) ==
    IF Stored(tok) = {} THEN "NotFound"
    ELSE IF \E r \in Stored(tok) : r.expires_at < now THEN "Expired"
    ELSE "Valid"

\* C1: a resolution whose lookup succeeded classifies its token by the
\* three-way status the token has when the record is tested against the clock,
\* and answers what it classified: GET /view serves the not-found page, the
\* expired page or the viewer page, GET /api/embed answers 404, 410 or 200
\* with the stored query, for NotFound, Expired (expires_at < now) and Valid
\* (also when now = expires_at).
C1_ThreeWay ==
    [][\A s \in Requests :
         /\ Compares(s) =>
               LET k == TokenStatus(req[s].token)
                   out == req'[s].resp
               IN  /\ req[s].op = "view" =>
                        /\ k = "NotFound" => out.page = "embed-not-found.html"
                        /\ k = "Expired" => out.page = "embed-expired.html"
                        /\ k = "Valid" => out.page = "embed.html"
                   /\ req[s].op = "data" =>
                        /\ k = "NotFound" => out.status = 404
                        /\ k = "Expired" => out.status = 410
                        /\ k = "Valid" =>
                             /\ out.status = 200
                             /\ \A r \in Stored(req[s].token) :
                                   out.cypherQuery = r.cypher_query
         /\ (Responds(s) /\ req[s].op \in {"view", "data"}) =>
               req'[s].resp = req[s].resp]_vars

\* a token resolved as valid at the very instant it expires
C1_Witness ==
    \E s \in Requests :
        /\ req[s].pc = "done" /\ req[s].op = "data"
        /\ req[s].resp.status = 200
        /\ req[s].resp.expiresAt = IsoFormat(now)

\* C2 as stated: a valid resolution exposes the submitted query character
\* for character.
C2_RoundTripVerbatim ==
    \A s \in Requests :
        (req[s].pc = "done" /\ req[s].op = "data" /\ req[s].resp.status = 200) =>
            req[s].resp.cypherQuery = issued[req[s].resp.embedToken].query

\* C2 amended: a valid resolution exposes the submitted query without its
\* leading and trailing whitespace, and otherwise character for character.
C2_RoundTripTrimmed ==
    \A s \in Requests :
        (req[s].pc = "done" /\ req[s].op = "data" /\ req[s].resp.status = 200) =>
            IsTrimOf(req[s].resp.cypherQuery, issued[req[s].resp.embedToken].query)

\* a token created from a query with whitespace around it is resolved
C2_Witness ==
    \E s \in Requests :
        /\ req[s].pc = "done" /\ req[s].op = "data" /\ req[s].resp.status = 200
        /\ LET q == issued[req[s].resp.embedToken].query
           IN  q # <<>> /\ (q[1] \in Whitespace \/ q[Len(q)] \in Whitespace)

\* C3: once a resolution of a token has reported Expired, every resolution
\* of that token begun after the report, whatever creations, resolutions and
\* proxy calls interleave with it and however far the clock advances, reports
\* Expired when its lookup succeeds, and is never valid and never NotFound.
C3_ExpiredForever ==
    [][\A s \in Requests :
         /\ (Arrives(s, "view") \/ Arrives(s, "data")) =>
               req'[s].afterExpired = (req'[s].token \in seenExpired)
         /\ (Responds(s) /\ req[s].op \in {"view", "data"}
               /\ req[s].afterExpired) =>
               LET out == req'[s].resp
               IN  /\ out.page \notin {"embed.html", "embed-not-found.html"}
                   /\ out.status # 404
                   /\ req[s].op = "data" => out.status # 200
                   /\ req[s].exc = "none" =>
                        IF req[s].op = "data" THEN out.status = 410
                        ELSE out.page = "embed-expired.html"]_vars

\* a token was reported expired by GET /api/embed, the clock moved on by a
\* day or more, and a GET /view begun after the report has found it expired
C3_Witness ==
    \E s1, s2 \in Requests :
        /\ s1 # s2 /\ req[s1].token = req[s2].token
        /\ req[s1].pc = "done" /\ req[s1].op = "data" /\ req[s1].resp.status = 410
        /\ req[s1].resp.expiresAt = NoIso
        /\ req[s2].pc = "close" /\ req[s2].op = "view" /\ req[s2].afterExpired
        /\ req[s2].resp.page = "embed-expired.html"
        /\ now >= req[s2].rec.expires_at + 2 * Day

\* C4: no step changes or removes a row; the table grows only by the one row
\* of a successful insert, and a successful insert adds exactly one row.
C4_RecordsImmutable ==
    [][/\ store \subseteq store'
       /\ store' # store =>
            \E s \in Requests : Inserts(s) /\ req'[s].raised = 0
       /\ \A s \in Requests :
            (Inserts(s) /\ req'[s].raised = 0) =>
                Cardinality(store') = Cardinality(store) + 1]_vars

\* two rows are stored while a resolution and a proxy call have completed
C4_Witness ==
    /\ Cardinality(store) = 2
    /\ \E s1, s2 \in Requests :
          /\ req[s1].pc = "done" /\ req[s1].op = "data" /\ req[s1].resp.status = 200
          /\ req[s2].pc = "done" /\ req[s2].op = "proxy"

\* C5: a creation whose query is empty or all whitespace is answered 400 by
\* the step that accepts it: no session is opened, no token is generated or
\* returned, and the table and the issued tokens are unchanged.
C5_BlankRejected ==
    [][\A s \in Requests :
         (Arrives(s, "create") /\ AllWhitespace(req'[s].query)
            /\ ~(req'[s].ttl # <<>> /\ req'[s].ttl[1] < 1)) =>
            /\ req'[s].pc = "done"
            /\ req'[s].resp.status = 400
            /\ req'[s].opened = 0 /\ req'[s].sess = 0
            /\ req'[s].token = NoToken
            /\ req'[s].resp.embedToken = NoToken
            /\ store' = store
            /\ issued' = issued]_vars

\* an all-whitespace, non-empty query was rejected
C5_Witness ==
    \E s \in Requests :
        /\ req[s].op = "create" /\ req[s].pc = "done"
        /\ req[s].query # <<>> /\ AllWhitespace(req[s].query)
        /\ req[s].resp.status = 400

\* C6: no two rows share a token and no token is returned by two creations;
\* an insert of a token that is already stored fails and adds no row.
C6_TokensUnique ==
    /\ [](\A r1, r2 \in store : r1.embed_token = r2.embed_token => r1 = r2)
    /\ [](\A t \in Tokens : issued[t].n <= 1)
    /\ [][\A s \in Requests :
            (Inserts(s) /\ Stored(req[s].token) # {}) =>
                /\ req'[s].raised # 0
                /\ store' = store]_vars

\* both tokens were issued and a third creation drew a stored token
C6_Witness ==
    /\ \A t \in Tokens : issued[t].n = 1
    /\ \E s \in Requests :
          /\ req[s].op = "create" /\ req[s].pc = "close"
          /\ req[s].exc = "IntegrityError"

\* the expiresInDays in force for a request body
DaysOf(ttl) == IF ttl = <<>> THEN 7 ELSE ttl[1]

\* C7: a successful creation returns expiresIn = ttlDays * 86400, and the
\* expiresAt it returns and the one it stored are the request's clock reading
\* plus that many seconds.
C7_Expiry ==
    [][\A s \in Requests :
         (Responds(s) /\ req[s].op = "create" /\ req'[s].resp.status = 200) =>
            LET secs == DaysOf(req[s].ttl) * 86400
                out == req'[s].resp
            IN  /\ out.expiresIn = secs
                /\ out.expiresAt =
                     <<(req[s].reqNow + secs) \div 86400, (req[s].reqNow + secs) % 86400>>
                /\ Stored(out.embedToken) # {}
                /\ \A r \in Stored(out.embedToken) :
                      r.expires_at = req[s].reqNow + secs]_vars

\* a creation with the default of seven days has answered
C7_Witness ==
    \E s \in Requests :
        /\ req[s].op = "create" /\ req[s].pc = "done"
        /\ req[s].resp.status = 200 /\ req[s].resp.expiresIn = 604800

\* C8 as stated: a supplied expiresInDays below 1 is rejected by the step that
\* accepts the request, with nothing stored; a body without it gets 7 days;
\* every expires_at is at least a day after the clock the handler read; and
\* every stored row has expires_at strictly after its created_at.
C8_NoShortTtl ==
    /\ [][\A s \in Requests :
            /\ (Arrives(s, "create") /\ req'[s].ttl # <<>> /\ req'[s].ttl[1] < 1) =>
                  /\ req'[s].pc = "done"
                  /\ req'[s].resp.status = 422
                  /\ req'[s].opened = 0
                  /\ store' = store
            /\ (Arrives(s, "create") /\ req'[s].ttl = <<>> /\ req'[s].pc # "done") =>
                  req'[s].expires_in = 604800
            /\ (Arrives(s, "create") /\ req'[s].pc # "done") =>
                  req'[s].expires_at >= now + 86400]_vars
    /\ [](\A r \in store : r.expires_at > r.created_at)

\* a creation with expiresInDays = 1 was answered 200 and its row, inserted a
\* day after the handler read the clock, has created_at = expires_at
C8_Witness ==
    \E s \in Requests, r \in store :
        /\ req[s].op = "create" /\ req[s].pc = "done"
        /\ req[s].resp.status = 200
        /\ req[s].resp.embedToken = r.embed_token
        /\ req[s].resp.expiresIn = Day
        /\ r.created_at = r.expires_at

\* a failed insert leaves the table alone, is the request's only attempt, and
\* is answered with the given status and without token or embedUrl
InsertFailure(status) ==
    \A s \in Requests :
        /\ (Inserts(s) /\ req'[s].exc # "none") =>
              /\ store' = store
              /\ req'[s].attempts = 1
        /\ (Responds(s) /\ req[s].op = "create" /\ req[s].exc # "none") =>
              /\ req[s].attempts = 1
              /\ req'[s].resp.status = status
              /\ req'[s].resp.success = FALSE
              /\ req'[s].resp.embedToken = NoToken
              /\ req'[s].resp.embedUrl = <<>>
              /\ issued' = issued

\* C9 as stated: a failed insert is answered with a ServiceUnavailable-class
\* error (503), nothing is returned or stored, and there is one attempt.
C9_FailureUnavailable == [][InsertFailure(503)]_vars

\* a creation whose insert failed was answered while every token is stored
C9_Witness ==
    \E s \in Requests :
        /\ req[s].op = "create" /\ req[s].pc = "done"
        /\ req[s].resp.status = 500
        /\ \A t \in Tokens : Stored(t) # {}

\* failures of the graph database by what went wrong: the connection could
\* not be made or was lost; the database refused the query text
ConnectionLevel == {"ServiceUnavailable", "SessionExpired"}
RejectedQuery == {"CypherSyntaxError"}

\* C10 as stated: a failing execute is classified as exactly one of 503, 400
\* and 500 and never answered as a success: 503 for a connection-level or
\* unreachable-database failure, otherwise 400 for a query the database
\* rejected, otherwise 500 for a failure that is neither a driver nor a
\* database error.
C10_Classified ==
    [][\A s \in Requests :
         (Responds(s) /\ req[s].op = "proxy" /\ req[s].exc # "none") =>
            /\ req'[s].raised \in {503, 400, 500}
            /\ req[s].exc \in ConnectionLevel => req'[s].raised = 503
            /\ req[s].exc \in RejectedQuery => req'[s].raised = 400
            /\ ~IsInstance(req[s].exc, "DriverError")
                  /\ ~IsInstance(req[s].exc, "Neo4jError") => req'[s].raised = 500
            /\ req'[s].resp.success = FALSE
            /\ req'[s].resp.error = req'[s].raised
            /\ req'[s].resp.data = <<>>]_vars

\* session.run has lost its connection (SessionExpired) and the request is
\* about to be answered
C10_Witness ==
    \E s \in Requests :
        /\ req[s].op = "proxy" /\ req[s].pc = "close"
        /\ req[s].exc = "SessionExpired"
        /\ RunCypherStatus(req[s].exc) = 500

\* C11: POST /api/proxy/query answers an empty or all-whitespace cypher with
\* 400 and opens no graph session; every other cypher is run and answered
\* 200: success with the rows in result order when the run succeeds, failure
\* with an error message when it fails, whichever of 503, 400 and 500 the
\* failure was classified as.
C11_ProxyUniform ==
    [][\A s \in Requests :
         /\ (Arrives(s, "proxy") /\ AllWhitespace(req'[s].query)) =>
               /\ req'[s].pc = "done"
               /\ req'[s].resp.status = 400
               /\ req'[s].opened = 0 /\ req'[s].sess = 0
         /\ (Arrives(s, "proxy") /\ ~AllWhitespace(req'[s].query)) =>
               req'[s].pc = "run" /\ req'[s].opened = 1
         /\ (Responds(s) /\ req[s].op = "proxy") =>
               LET out == req'[s].resp
               IN  /\ out.status = 200
                   /\ req[s].exc = "none" =>
                         out.success = TRUE /\ out.data = req[s].rows /\ out.error = 0
                   /\ req[s].exc # "none" =>
                         /\ out.success = FALSE /\ out.data = <<>>
                         /\ out.error \in {503, 400, 500}]_vars

\* a run that failed with an unreachable database was answered 200
C11_Witness ==
    \E s \in Requests :
        /\ req[s].op = "proxy" /\ req[s].pc = "done"
        /\ req[s].raised = 503
        /\ req[s].resp.status = 200 /\ req[s].resp.success = FALSE

\* C12: under every interleaving of creations and resolutions, a commit adds
\* the whole record of its request at once (its token, its stored query, the
\* expires_at computed at creation), a lookup that succeeds reads either that
\* whole record or nothing, and resolutions of one token that found a record
\* hold and return the same query and the same expiresAt.
C12_AtomicRecord ==
    [][\A s \in Requests :
         /\ Inserts(s) =>
               IF req'[s].raised = 0
               THEN store' = store \cup
                               {NewRow(req[s].token, StoredQuery(req[s].query),
                                       req[s].expires_at, now)}
               ELSE store' = store
         /\ (req[s].pc = "lookup" /\ req'[s].pc = "compare" /\ req'[s].raised = 0) =>
               \/ req'[s].rec = NoRec /\ Stored(req[s].token) = {}
               \/ /\ req'[s].rec \in store
                  /\ req'[s].rec.embed_token = req[s].token
                  /\ req'[s].rec.cypher_query # <<>>
                  /\ req'[s].rec.expires_at # NoTime
         /\ \A r \in Requests :
               /\ (req'[s].rec # NoRec /\ req'[r].rec # NoRec
                     /\ req'[s].token = req'[r].token) =>
                     req'[s].rec = req'[r].rec
               /\ (req'[s].pc = "done" /\ req'[r].pc = "done"
                     /\ req'[s].op = "data" /\ req'[r].op = "data"
                     /\ req'[s].resp.status = 200 /\ req'[r].resp.status = 200
                     /\ req'[s].token = req'[r].token) =>
                     /\ req'[s].resp.cypherQuery = req'[r].resp.cypherQuery
                     /\ req'[s].resp.expiresAt = req'[r].resp.expiresAt]_vars

\* a resolution has returned the record of a creation that has committed but
\* not yet answered
C12_Witness ==
    \E s, r \in Requests :
        /\ req[s].op = "create" /\ req[s].pc = "close" /\ req[s].raised = 0
        /\ req[r].op = "data" /\ req[r].pc = "done"
        /\ req[r].token = req[s].token
        /\ req[r].resp.status = 200
        /\ req[r].resp.expiresAt = IsoFormat(req[s].expires_at)

\* C13: a request holds at most one session, storage or graph, at any time;
\* a request that opened one holds it while it is in flight and has released
\* it when it answers, whatever the answer: success, 404, 410, a storage
\* error, or a graph failure of any class.
C13_SessionsScoped ==
    [][\A s \in Requests :
         /\ req'[s].sess \in {0, 1}
         /\ req'[s].opened <= 1
         /\ req'[s].sess <= req'[s].opened
         /\ req'[s].pc \notin {"idle", "done"} => req'[s].sess = 1
         /\ Free(s)' => req'[s].sess = 0
         /\ (Responds(s) /\ req[s].opened = 1) =>
               req[s].sess = 1 /\ req'[s].sess = 0]_vars

\* a lookup that failed in storage and a query that failed in the graph have
\* both been answered, and neither request holds a session
C13_Witness ==
    \E s, r \in Requests :
        /\ req[s].op \in {"view", "data"} /\ req[s].pc = "done"
        /\ req[s].resp.status = 500 /\ req[s].sess = 0
        /\ req[r].op = "proxy" /\ req[r].pc = "done"
        /\ req[r].raised # 0 /\ req[r].sess = 0

====
